---- MODULE Spec2Model ----
(***************************************************************************)
(* A model of the helpers package of sda-cli (src/helpers/helpers.go):     *)
(*   - CustomReader, the progress-counting reader shared by the upload     *)
(*     workers (Read, ReadAt, Seek);                                       *)
(*   - FileIsReadable;                                                     *)
(*   - FormatSubcommandUsage;                                              *)
(*   - getPositional / ParseArgs.                                          *)
(* Each part has its own specification; the variables of the other parts   *)
(* stay at their initial values.                                           *)
(***************************************************************************)
EXTENDS Integers, Sequences, FiniteSets, TLC

VARIABLES
    \* ---- CustomReader (helpers.go 178-185) and the progress bar behind it
    Reads,        \* r.Reads
    SignMap,      \* r.SignMap, as the set of its keys
    Mux,          \* r.Mux: NoWorker when free, else the worker holding it
    barCurrent,   \* the last value given to r.Bar.SetCurrent
    barTotal,     \* the last value given to r.Bar.SetTotal
    fpPos,        \* the file position of r.Fp (moved by Read and Seek)
    \* ---- the workers calling the reader
    pc,           \* where each worker stands inside ReadAt
    off,          \* the off argument of the worker's current ReadAt
    nRead,        \* n, the result of r.Fp.ReadAt in the current ReadAt
    tmp,          \* the value of r.Reads loaded by "r.Reads += int64(n)"
    ncalls,       \* the number of reader calls made so far (bounded)
    \* ---- history of the run (not program state)
    completed,    \* completed[w][o]: successful ReadAt(p, o) calls returned to w
    added,        \* the bytes of every executed "r.Reads += int64(n)"
    firstSeen,    \* firstSeen[o]: how many calls took the "first call" branch for o
    \* ---- FileIsReadable
    fsKind, fsReadable, fsSize, fpc, fResult, openFds, statInfo, fcalls,
    \* ---- FormatSubcommandUsage
    usageString, upc, uResult,
    \* ---- getPositional / ParseArgs
    osArgs, args, gi, positional, apc, parsed

readerVars == <<Reads, SignMap, Mux, barCurrent, barTotal, fpPos, pc, off, nRead,
                tmp, ncalls, completed, added, firstSeen>>
fileVars   == <<fsKind, fsReadable, fsSize, fpc, fResult, openFds, statInfo, fcalls>>
usageVars  == <<usageString, upc, uResult>>
argsVars   == <<osArgs, args, gi, positional, apc, parsed>>
vars       == <<readerVars, fileVars, usageVars, argsVars>>
notReader  == <<fileVars, usageVars, argsVars>>

(***************************************************************************)
(* Bounds                                                                  *)
(***************************************************************************)
NWorkers == 2       \* concurrent upload workers
NParts   == 2       \* parts the file is cut into
PartSize == 2       \* bytes of every part but the last
LastLen  == 1       \* bytes of the last part
MaxCalls == 4       \* reader calls in one run

Workers  == 1..NWorkers
NoWorker == 0
PartIdx  == 0..(NParts - 1)
Size     == (NParts - 1) * PartSize + LastLen       \* r.Size
PartOff(k) == k * PartSize
PartLen(k) == IF k = NParts - 1 THEN LastLen ELSE PartSize
\* the offsets a worker may pass: every part's start, and the end of the file
Offsets  == {PartOff(k) : k \in 0..NParts}
\* the buffer a worker passes for offset o: the part's length (a full part at EOF)
BufLen(o) == IF o \div PartSize \in PartIdx THEN PartLen(o \div PartSize) ELSE PartSize

RECURSIVE SumOver(_, _)
SumOver(S, f) == IF S = {} THEN 0
                 ELSE LET x == CHOOSE y \in S : TRUE
                      IN  f[x] + SumOver(S \ {x}, f)

Min(a, b) == IF a < b THEN a ELSE b
Max(a, b) == IF a > b THEN a ELSE b

(***************************************************************************)
(* os.File, as far as the reader uses it                                   *)
(***************************************************************************)
\* r.Fp.ReadAt(p, off): len(p) bytes, or fewer and an error (io.EOF) at the end
FpReadAt(len, o) ==
    IF o + len <= Size THEN [n |-> len, err |-> FALSE]
    ELSE [n |-> Max(Size - o, 0), err |-> TRUE]

\* r.Fp.Seek(offset, whence): the new position, or -1 for an error
FpSeek(pos, offset, whence) ==
    LET base == CASE whence = 0 -> 0
                  [] whence = 1 -> pos
                  [] OTHER      -> Size
    IN  IF base + offset < 0 THEN -1 ELSE base + offset

(***************************************************************************)
(* CustomReader                                                            *)
(***************************************************************************)
Idle(w) == pc[w] = "idle"

\* helpers.go 187-189: Read only moves the file position
Read(w) ==
    /\ Idle(w) /\ ncalls < MaxCalls
    /\ \E len \in 1..PartSize :
          fpPos' = fpPos + Min(len, Max(Size - fpPos, 0))
    /\ ncalls' = ncalls + 1
    /\ UNCHANGED <<notReader, Reads, SignMap, Mux, barCurrent, barTotal, pc, off, nRead, tmp,
                   completed, added, firstSeen>>

\* helpers.go 212-214: Seek only moves the file position
Seek(w) ==
    /\ Idle(w) /\ ncalls < MaxCalls
    /\ \E offset \in {-1, 0, 1}, whence \in {0, 1, 2} :
          LET np == FpSeek(fpPos, offset, whence)
          IN  /\ np <= Size + 1
              /\ fpPos' = IF np < 0 THEN fpPos ELSE np
    /\ ncalls' = ncalls + 1
    /\ UNCHANGED <<notReader, Reads, SignMap, Mux, barCurrent, barTotal, pc, off, nRead, tmp,
                   completed, added, firstSeen>>

\* helpers.go 192-195: the underlying read failed, ReadAt returns (n, err)
ReadAtErr(w) ==
    /\ Idle(w) /\ ncalls < MaxCalls
    /\ \E o \in Offsets : FpReadAt(BufLen(o), o).err
    /\ ncalls' = ncalls + 1
    /\ UNCHANGED <<notReader, Reads, SignMap, Mux, barCurrent, barTotal, fpPos, pc, off, nRead,
                   tmp, completed, added, firstSeen>>

\* helpers.go 192: the underlying read succeeded
ReadAtStart(w) ==
    /\ Idle(w) /\ ncalls < MaxCalls
    /\ \E o \in Offsets :
          /\ ~FpReadAt(BufLen(o), o).err
          /\ off' = [off EXCEPT ![w] = o]
          /\ nRead' = [nRead EXCEPT ![w] = FpReadAt(BufLen(o), o).n]
    /\ pc' = [pc EXCEPT ![w] = "setTotal"]
    /\ ncalls' = ncalls + 1
    /\ UNCHANGED <<notReader, Reads, SignMap, Mux, barCurrent, barTotal, fpPos, tmp,
                   completed, added, firstSeen>>

\* helpers.go 197: r.Bar.SetTotal(r.Size, false)
SetTotal(w) ==
    /\ pc[w] = "setTotal"
    /\ barTotal' = Size
    /\ pc' = [pc EXCEPT ![w] = "lock"]
    /\ UNCHANGED <<notReader, Reads, SignMap, Mux, barCurrent, fpPos, off, nRead, tmp, ncalls,
                   completed, added, firstSeen>>

\* sync.Mutex.Lock returns only when the mutex is free
CanLockAlways == TRUE
CanLock == Mux = NoWorker

\* helpers.go 199: r.Mux.Lock()
Lock(w) ==
    /\ pc[w] = "lock"
    /\ CanLock
    /\ Mux' = w
    /\ pc' = [pc EXCEPT ![w] = "check"]
    /\ UNCHANGED <<notReader, Reads, SignMap, barCurrent, barTotal, fpPos, off, nRead, tmp,
                   ncalls, completed, added, firstSeen>>

\* helpers.go 201: if _, ok := r.SignMap[off]; ok
Check(w) ==
    /\ pc[w] = "check"
    /\ pc' = [pc EXCEPT ![w] = IF off[w] \in SignMap THEN "load" ELSE "insert"]
    /\ UNCHANGED <<notReader, Reads, SignMap, Mux, barCurrent, barTotal, fpPos, off, nRead, tmp,
                   ncalls, completed, added, firstSeen>>

\* helpers.go 202: r.Reads += int64(n), the load
LoadReads(w) ==
    /\ pc[w] = "load"
    /\ tmp' = [tmp EXCEPT ![w] = Reads]
    /\ pc' = [pc EXCEPT ![w] = "store"]
    /\ UNCHANGED <<notReader, Reads, SignMap, Mux, barCurrent, barTotal, fpPos, off, nRead,
                   ncalls, completed, added, firstSeen>>

\* the value "r.Reads += int64(n)" stores
ReadsSet(old, n) == n
ReadsAdd(old, n) == old + n

\* helpers.go 202: r.Reads += int64(n), the store
StoreReads(w) ==
    /\ pc[w] = "store"
    /\ Reads' = ReadsAdd(tmp[w], nRead[w])
    /\ added' = added + nRead[w]
    /\ pc' = [pc EXCEPT ![w] = "setCurrent"]
    /\ UNCHANGED <<notReader, SignMap, Mux, barCurrent, barTotal, fpPos, off, nRead, tmp,
                   ncalls, completed, firstSeen>>

\* helpers.go 203: r.Bar.SetCurrent(r.Reads)
SetCurrent(w) ==
    /\ pc[w] = "setCurrent"
    /\ barCurrent' = Reads
    /\ pc' = [pc EXCEPT ![w] = "unlock"]
    /\ UNCHANGED <<notReader, Reads, SignMap, Mux, barTotal, fpPos, off, nRead, tmp, ncalls,
                   completed, added, firstSeen>>

\* helpers.go 205: r.SignMap[off] = struct{}{}
InsertSign(w) ==
    /\ pc[w] = "insert"
    /\ SignMap' = SignMap \cup {off[w]}
    /\ firstSeen' = [firstSeen EXCEPT ![off[w]] = @ + 1]
    /\ pc' = [pc EXCEPT ![w] = "unlock"]
    /\ UNCHANGED <<notReader, Reads, Mux, barCurrent, barTotal, fpPos, off, nRead, tmp, ncalls,
                   completed, added>>

\* helpers.go 207-209: r.Mux.Unlock(); return n, err
Unlock(w) ==
    /\ pc[w] = "unlock"
    /\ Mux' = NoWorker
    /\ pc' = [pc EXCEPT ![w] = "idle"]
    /\ completed' = [completed EXCEPT ![w][off[w]] = @ + 1]
    /\ UNCHANGED <<notReader, Reads, SignMap, barCurrent, barTotal, fpPos, off, nRead, tmp,
                   ncalls, added, firstSeen>>

\* helpers.go 191-210
ReadAt(w) ==
    \/ ReadAtErr(w)
    \/ ReadAtStart(w)
    \/ SetTotal(w)
    \/ Lock(w)
    \/ Check(w)
    \/ LoadReads(w)
    \/ StoreReads(w)
    \/ SetCurrent(w)
    \/ InsertSign(w)
    \/ Unlock(w)

ReaderInit ==
    /\ Reads = 0
    /\ SignMap = {}
    /\ Mux = NoWorker
    /\ barCurrent = 0
    /\ barTotal = 0
    /\ fpPos = 0
    /\ pc = [w \in Workers |-> "idle"]
    /\ off = [w \in Workers |-> 0]
    /\ nRead = [w \in Workers |-> 0]
    /\ tmp = [w \in Workers |-> 0]
    /\ ncalls = 0
    /\ completed = [w \in Workers |-> [o \in Offsets |-> 0]]
    /\ added = 0
    /\ firstSeen = [o \in Offsets |-> 0]

\* nothing at the path, FileIsReadable not yet called
FileIdle ==
    /\ fsKind = "missing" /\ fsReadable = FALSE /\ fsSize = 0 /\ fpc = "idle"
    /\ fResult = "none" /\ openFds = 0 /\ statInfo = "none" /\ fcalls = 0
UsageIdle == usageString = <<>> /\ upc = "idle" /\ uResult = <<>>
ArgsIdle ==
    /\ osArgs = <<>> /\ args = <<>> /\ gi = 0 /\ positional = <<>>
    /\ apc = "idle" /\ parsed = <<>>

Init == ReaderInit /\ FileIdle /\ UsageIdle /\ ArgsIdle

Next ==
    \/ \E w \in Workers : Read(w)
    \/ \E w \in Workers : Seek(w)
    \/ \E w \in Workers : ReadAt(w)

Spec == Init /\ [][Next]_vars

(***************************************************************************)
(* FileIsReadable (helpers.go 42-63) on one path of the file system.       *)
(* fsKind is what the path names, fsReadable whether the program may open  *)
(* it for reading, fsSize the bytes of a regular file. Between two calls   *)
(* the path is changed the way the package's test changes it (WriteFile,   *)
(* Chmod, Remove, and a directory in its place).                           *)
(***************************************************************************)
MaxFileSize  == 2       \* bytes of the file
MaxFileCalls == 4       \* calls of FileIsReadable in one run

notFile == <<readerVars, usageVars, argsVars>>
Outside == fpc \in {"idle", "returned"}
Forget  == fpc' = "idle" /\ fResult' = "none" /\ statInfo' = "none"

EnvWriteFile ==
    /\ Outside /\ fsKind \in {"missing", "file"}
    /\ \E sz \in 0..MaxFileSize : fsSize' = sz
    /\ fsKind' = "file"
    /\ fsReadable' = IF fsKind = "missing" THEN TRUE ELSE fsReadable
    /\ Forget
    /\ UNCHANGED <<notFile, openFds, fcalls>>

EnvMkdir ==
    /\ Outside /\ fsKind = "missing"
    /\ fsKind' = "dir" /\ fsReadable' = TRUE /\ fsSize' = 0
    /\ Forget
    /\ UNCHANGED <<notFile, openFds, fcalls>>

EnvChmod ==
    /\ Outside /\ fsKind # "missing"
    /\ \E r \in BOOLEAN : fsReadable' = r
    /\ Forget
    /\ UNCHANGED <<notFile, fsKind, fsSize, openFds, fcalls>>

EnvRemove ==
    /\ Outside /\ fsKind # "missing"
    /\ fsKind' = "missing" /\ fsReadable' = FALSE /\ fsSize' = 0
    /\ Forget
    /\ UNCHANGED <<notFile, openFds, fcalls>>

\* os.Stat: an error for a missing path, else what the path names
OsStat == IF fsKind = "missing" THEN "err" ELSE fsKind
\* os.Open: fails when the path is missing or may not be opened for reading
OsOpenFails == fsKind = "missing" \/ ~fsReadable
\* inFile.Read of one byte: io.EOF (an error) when nothing is left to read
OsReadFails == fsSize = 0

\* helpers.go 44-47: err != nil || fileInfo.IsDir(): return false
StatFail ==
    /\ Outside /\ fcalls < MaxFileCalls
    /\ OsStat \in {"err", "dir"}
    /\ statInfo' = OsStat
    /\ fResult' = "false" /\ fpc' = "returned"
    /\ fcalls' = fcalls + 1
    /\ UNCHANGED <<notFile, fsKind, fsReadable, fsSize, openFds>>

\* helpers.go 44-45: a regular file, go on
StatOk ==
    /\ Outside /\ fcalls < MaxFileCalls
    /\ OsStat = "file"
    /\ statInfo' = OsStat
    /\ fResult' = "none" /\ fpc' = "open"
    /\ fcalls' = fcalls + 1
    /\ UNCHANGED <<notFile, fsKind, fsReadable, fsSize, openFds>>

\* helpers.go 49-52: os.Open failed: return false
OpenFail ==
    /\ fpc = "open" /\ OsOpenFails
    /\ fResult' = "false" /\ fpc' = "returned"
    /\ UNCHANGED <<notFile, fsKind, fsReadable, fsSize, openFds, statInfo, fcalls>>

\* helpers.go 49, 53-57: the file is open, its Close is deferred
OpenOk ==
    /\ fpc = "open" /\ ~OsOpenFails
    /\ openFds' = openFds + 1
    /\ fpc' = "read"
    /\ UNCHANGED <<notFile, fsKind, fsReadable, fsSize, fResult, statInfo, fcalls>>

\* the value FileIsReadable returns after reading: err == nil
ReadVerdict == IF OsReadFails THEN "false" ELSE "true"

\* helpers.go 59-62: read one byte, return err == nil
ReadByte ==
    /\ fpc = "read"
    /\ fResult' = ReadVerdict
    /\ fpc' = "close"
    /\ UNCHANGED <<notFile, fsKind, fsReadable, fsSize, openFds, statInfo, fcalls>>

\* helpers.go 53-57: the deferred inFile.Close() runs as the function returns
DeferredClose ==
    /\ fpc = "close"
    /\ openFds' = openFds - 1
    /\ fpc' = "returned"
    /\ UNCHANGED <<notFile, fsKind, fsReadable, fsSize, fResult, statInfo, fcalls>>

FileNext ==
    \/ EnvWriteFile \/ EnvMkdir \/ EnvChmod \/ EnvRemove
    \/ StatFail \/ StatOk \/ OpenFail \/ OpenOk \/ ReadByte \/ DeferredClose

SpecFile == Init /\ [][FileNext]_vars

\* C6: FileIsReadable returns true exactly when the path exists, is not a
\* directory and is readable by the program, and no file is left open.
C6_TrueIffReadableFile ==
    fpc = "returned" =>
        /\ (fResult = "true") <=> (fsKind = "file" /\ fsReadable)
        /\ openFds = 0

(***************************************************************************)
(* Strings are sequences of one-character strings; NL is the line break.   *)
(***************************************************************************)
NL == "\n"
IsSpace(c) == c \in {" ", NL, "\t", "\r"}

\* strings.HasPrefix
HasPrefix(s, p) == Len(s) >= Len(p) /\ SubSeq(s, 1, Len(p)) = p

\* strings.Contains
Contains(s, sub) ==
    \E i \in 1..(Len(s) - Len(sub) + 1) : SubSeq(s, i, i + Len(sub) - 1) = sub

\* strings.TrimSpace
RECURSIVE TrimLeft(_)
TrimLeft(s) == IF s # <<>> /\ IsSpace(Head(s)) THEN TrimLeft(Tail(s)) ELSE s
RECURSIVE TrimRight(_)
TrimRight(s) ==
    IF s # <<>> /\ IsSpace(s[Len(s)]) THEN TrimRight(SubSeq(s, 1, Len(s) - 1)) ELSE s
TrimSpace(s) == TrimRight(TrimLeft(s))

\* strings.Split(s, "\n"): the pieces between the line breaks (one piece, s
\* itself, when s holds none)
RECURSIVE Split(_)
Split(s) ==
    IF \A i \in 1..Len(s) : s[i] # NL THEN <<s>>
    ELSE LET i == CHOOSE j \in 1..Len(s) :
                      s[j] = NL /\ \A k \in 1..(j - 1) : s[k] # NL
         IN  <<SubSeq(s, 1, i - 1)>> \o Split(SubSeq(s, i + 1, Len(s)))

\* strings.Join(lines, "\n")
RECURSIVE Join(_)
Join(lines) ==
    IF lines = <<>> THEN <<>>
    ELSE IF Len(lines) = 1 THEN lines[1]
    ELSE lines[1] \o <<NL>> \o Join(Tail(lines))

\* os.Args[0], the name the program was started under
Arg0 == <<"p">>
Missing(c) == <<"%", "!", c, "(", "M", "I", "S", "S", "I", "N", "G", ")">>

\* fmt.Sprintf(s, os.Args[0]) for a format whose only verbs are %s and %v: the
\* first verb prints the argument, a later one has no argument left
RECURSIVE SprintfFrom(_, _)
SprintfFrom(s, used) ==
    IF s = <<>> THEN <<>>
    ELSE IF Head(s) = "%" /\ Len(s) >= 2 /\ s[2] \in {"s", "v"}
         THEN (IF used THEN Missing(s[2]) ELSE Arg0)
              \o SprintfFrom(SubSeq(s, 3, Len(s)), TRUE)
         ELSE <<Head(s)>> \o SprintfFrom(Tail(s), used)
Sprintf(s) == SprintfFrom(s, FALSE)

UsagePrefix == <<"U", "S", "A", "G", "E", ":">>
Indent == <<" ", " ", " ", " ">>

\* helpers.go 86: the help lines that are kept, lines[2:] of the Go slice
KeptLines(lines) == SubSeq(lines, 3, Len(lines))

\* helpers.go 67-87
FormatSubcommandUsage(u) ==
    IF ~Contains(u, <<"%", "s">>) /\ ~Contains(u, <<"%", "v">>) THEN u
    ELSE LET f     == Sprintf(u)
             lines == Split(TrimSpace(f))
         IN  IF Len(lines) < 2 \/ ~HasPrefix(lines[1], UsagePrefix) THEN f
             ELSE <<NL>> \o Join(KeptLines(lines)) \o <<NL, NL>> \o Indent
                  \o lines[1] \o <<NL, NL>>

\* The usage strings tried: up to MaxPieces pieces, each a word of a usage
\* string, a verb, a blank or a line break.
MaxPieces == 4
Pieces == {UsagePrefix, <<"%", "s">>, <<"%", "v">>, <<NL>>, <<" ">>, <<"a">>, <<"b">>}
RECURSIVE Flatten(_)
Flatten(ps) == IF ps = <<>> THEN <<>> ELSE Head(ps) \o Flatten(Tail(ps))
UsageStrings ==
    {Flatten(ps) : ps \in UNION {[1..n -> Pieces] : n \in 0..MaxPieces}}

notUsage == <<readerVars, fileVars, argsVars>>

InitUsage ==
    /\ ReaderInit /\ FileIdle /\ ArgsIdle
    /\ usageString \in UsageStrings
    /\ upc = "idle"
    /\ uResult = <<>>

\* main's Help (part_001 149-154) formats the usage string of a subcommand
FormatUsage ==
    /\ upc = "idle"
    /\ uResult' = FormatSubcommandUsage(usageString)
    /\ upc' = "done"
    /\ UNCHANGED <<notUsage, usageString>>

UsageNext == FormatUsage

SpecUsage == InitUsage /\ [][UsageNext]_vars

IsBlank(line) == \A i \in 1..Len(line) : IsSpace(line[i])
RECURSIVE NonBlank(_)
NonBlank(lines) ==
    IF lines = <<>> THEN <<>>
    ELSE (IF IsBlank(Head(lines)) THEN <<>> ELSE <<Head(lines)>>)
         \o NonBlank(Tail(lines))

\* C7: a string with no %s/%v verb is returned unchanged; a formatted string of
\* fewer than two lines, or whose first line does not start with "USAGE:", is
\* returned as formatted; otherwise the result is the help-text lines that
\* followed the usage line, in their order, and then the usage line, indented.
C7_UsageMovedBelowHelp ==
    upc = "done" =>
        LET f     == Sprintf(usageString)
            lines == Split(TrimSpace(f))
        IN  IF ~Contains(usageString, <<"%", "s">>)
               /\ ~Contains(usageString, <<"%", "v">>)
            THEN uResult = usageString
            ELSE IF Len(lines) < 2 \/ ~HasPrefix(lines[1], UsagePrefix)
            THEN uResult = f
            ELSE NonBlank(Split(uResult))
                 = NonBlank(Tail(lines)) \o <<Indent \o lines[1]>>

(***************************************************************************)
(* getPositional and ParseArgs (helpers.go 122-155). An argument is a      *)
(* sequence of characters; gi is the Go index i into args.                 *)
(***************************************************************************)
\* helpers.go 125
argList == {<<"-", "r">>,
            <<"-", "-", "r">>,
            <<"-", "-", "f", "o", "r", "c", "e", "-", "o", "v", "e", "r", "w", "r", "i", "t", "e">>,
            <<"-", "f", "o", "r", "c", "e", "-", "o", "v", "e", "r", "w", "r", "i", "t", "e">>,
            <<"-", "-", "f", "o", "r", "c", "e", "-", "u", "n", "e", "n", "c", "r", "y", "p", "t", "e", "d">>,
            <<"-", "f", "o", "r", "c", "e", "-", "u", "n", "e", "n", "c", "r", "y", "p", "t", "e", "d">>}

MaxArgs == 4
ProgName == <<"s", "d", "a">>
\* the arguments tried: two boolean flags, a flag that takes a value, two plain
\* words, and the empty argument
ArgWords == {<<"-", "r">>, <<"-", "-", "f", "o", "r", "c", "e", "-", "u", "n", "e", "n", "c", "r", "y", "p", "t", "e", "d">>, <<"-", "k">>, <<"a">>, <<"b">>, <<>>}
ArgLists == {<<ProgName>> \o r : r \in UNION {[1..n -> ArgWords] : n \in 0..MaxArgs}}

notArgs == <<readerVars, fileVars, usageVars>>

InitArgs ==
    /\ ReaderInit /\ FileIdle /\ UsageIdle
    /\ osArgs \in ArgLists
    /\ args = <<>> /\ gi = 0 /\ positional = <<>> /\ apc = "idle" /\ parsed = <<>>

\* helpers.go 147-149, 126-127: ParseArgs calls getPositional(args); i := 1
CallGetPositional ==
    /\ apc = "idle"
    /\ args' = osArgs
    /\ gi' = 1
    /\ positional' = <<>>
    /\ apc' = "loop"
    /\ UNCHANGED <<notArgs, osArgs, parsed>>

InLoop == apc = "loop" /\ gi < Len(args)
Cur == args[gi + 1]

\* helpers.go 130-132: a boolean flag is skipped
LoopBool ==
    /\ InLoop /\ Cur \in argList
    /\ gi' = gi + 1
    /\ UNCHANGED <<notArgs, osArgs, args, positional, apc, parsed>>

\* helpers.go 133: args[i][0] indexes an empty string: the program panics
LoopPanic ==
    /\ InLoop /\ Cur \notin argList /\ Len(Cur) = 0
    /\ apc' = "panic"
    /\ UNCHANGED <<notArgs, osArgs, args, gi, positional, parsed>>

\* helpers.go 133-135: a flag and its value are skipped
LoopFlag ==
    /\ InLoop /\ Cur \notin argList /\ Len(Cur) > 0 /\ Cur[1] = "-"
    /\ gi' = gi + 2
    /\ UNCHANGED <<notArgs, osArgs, args, positional, apc, parsed>>

\* helpers.go 136-140: a positional argument moves from args to positional
LoopPositional ==
    /\ InLoop /\ Cur \notin argList /\ Len(Cur) > 0 /\ Cur[1] # "-"
    /\ positional' = Append(positional, Cur)
    /\ args' = SubSeq(args, 1, gi) \o SubSeq(args, gi + 2, Len(args))
    /\ UNCHANGED <<notArgs, osArgs, gi, apc, parsed>>

\* helpers.go 128, 144, 151-152: the loop ends; the positional arguments are
\* appended to args and args[1:] goes to the flag parser
ParseFlags ==
    /\ apc = "loop" /\ ~(gi < Len(args))
    /\ args' = args \o positional
    /\ parsed' = Tail(args \o positional)
    /\ apc' = "done"
    /\ UNCHANGED <<notArgs, osArgs, gi, positional>>

ArgsNext ==
    \/ CallGetPositional
    \/ LoopBool \/ LoopPanic \/ LoopFlag \/ LoopPositional
    \/ ParseFlags

SpecArgs == InitArgs /\ [][ArgsNext]_vars

\* What the claim expects of an argument list (the program's name left out)
IsBoolFlag(a) == a \in argList
IsFlag(a) == Len(a) > 0 /\ a[1] = "-"
\* every flag that is not boolean is followed by a value
RECURSIVE WellFormed(_)
WellFormed(r) ==
    IF r = <<>> THEN TRUE
    ELSE IF IsBoolFlag(Head(r)) THEN WellFormed(Tail(r))
    ELSE IF IsFlag(Head(r)) THEN Len(r) >= 2 /\ WellFormed(SubSeq(r, 3, Len(r)))
    ELSE WellFormed(Tail(r))
RECURSIVE FlagsOf(_)
FlagsOf(r) ==
    IF r = <<>> THEN <<>>
    ELSE IF IsBoolFlag(Head(r)) THEN <<Head(r)>> \o FlagsOf(Tail(r))
    ELSE IF IsFlag(Head(r)) THEN SubSeq(r, 1, 2) \o FlagsOf(SubSeq(r, 3, Len(r)))
    ELSE FlagsOf(Tail(r))
RECURSIVE PositionalOf(_)
PositionalOf(r) ==
    IF r = <<>> THEN <<>>
    ELSE IF IsBoolFlag(Head(r)) THEN PositionalOf(Tail(r))
    ELSE IF IsFlag(Head(r)) THEN PositionalOf(SubSeq(r, 3, Len(r)))
    ELSE <<Head(r)>> \o PositionalOf(Tail(r))

ArgsEnded == apc \in {"done", "panic"}

\* C8: for every argument list whose non-boolean flags each have a value,
\* ParseArgs hands the flag parser the flags (with their values) in their order
\* and then the positional arguments in their order, and getPositional returns
\* exactly the positional arguments.
C8_FlagsThenPositional ==
    (ArgsEnded /\ WellFormed(Tail(osArgs))) =>
        /\ apc = "done"
        /\ parsed = FlagsOf(Tail(osArgs)) \o PositionalOf(Tail(osArgs))
        /\ positional = PositionalOf(Tail(osArgs))

(***************************************************************************)
(* Claims about CustomReader (checked under Spec)                          *)
(***************************************************************************)
Quiescent == \A w \in Workers : Idle(w)
\* successful ReadAt calls at offset o that have returned, over all workers
Returned(o) == SumOver(Workers, [w \in Workers |-> completed[w][o]])
OffsetsRead == {o \in Offsets : Returned(o) > 0}
Critical == {"check", "load", "store", "setCurrent", "insert", "unlock"}

\* C1: once the ReadAt calls have returned, Reads is the sum, over the distinct
\* offsets read, of the bytes of one read at that offset: every offset range is
\* counted exactly once, however often it was read.
C1_CountedExactlyOnce ==
    Quiescent => Reads = SumOver(OffsetsRead, [o \in Offsets |-> BufLen(o)])

\* C2: the progress never exceeds the size of the file, whatever is read again.
C2_ReadsAtMostSize == Reads <= Size

\* C3: when every part has been read, each by a single worker (disjoint ranges
\* that sum to Size), and all workers have finished, the progress is exactly
\* Size, and so is the value given to Bar.SetCurrent.
DisjointWorkers ==
    \A o \in Offsets :
        Cardinality({w \in Workers : completed[w][o] > 0}) <= 1
AllPartsRead == \A k \in PartIdx : Returned(PartOff(k)) > 0
C3_FinishedAtSize ==
    (Quiescent /\ DisjointWorkers /\ AllPartsRead)
        => (Reads = Size /\ barCurrent = Size)

\* C4: the progress is non-decreasing: no step of Read, Seek or ReadAt lowers
\* Reads, and no step lowers the value last given to Bar.SetCurrent.
C4_NonDecreasing == [][Reads' >= Reads /\ barCurrent' >= barCurrent]_vars

\* C4's case: an offset read three times (a retry), counted and published,
\* while a position-moving call has been made as well.
C4_Witness ==
    /\ \E o \in Offsets : Returned(o) >= 3
    /\ fpPos > 0
    /\ Reads > 0
    /\ barCurrent = Reads

\* C5: Reads and SignMap are read and written, and Reads is given to
\* Bar.SetCurrent, only by the worker that holds Mux; at most one worker is
\* inside that section; no increment of Reads is lost, no offset takes the
\* first-call branch twice, and outside the section the published value is Reads.
C5_SingleWriter ==
    /\ \A w \in Workers : pc[w] \in Critical => Mux = w
    /\ Cardinality({w \in Workers : pc[w] \in Critical}) <= 1
    /\ Reads = added
    /\ \A o \in Offsets : firstSeen[o] <= 1
    /\ Mux = NoWorker => barCurrent = Reads

\* C5's case: one worker is about to store its increment while another waits for
\* the lock with a read of the same offset, after earlier counted reads.
C5_Witness ==
    \E w1, w2 \in Workers :
        /\ w1 # w2
        /\ pc[w1] = "store" /\ pc[w2] = "lock"
        /\ off[w1] = off[w2]
        /\ Reads > 0
====
